---- MODULE Spec2Model ----
(***************************************************************************)
(* Keyboard.js (src/keyboard.js): per-element registries of key chords,    *)
(* the broken-chord table, the key-down canceller, the key-up dispatcher   *)
(* and the handler factory with its deferral until the DOM is loaded.      *)
(***************************************************************************)
EXTENDS Integers, Sequences, FiniteSets, TLC

VARIABLES
  lib,        \* the adapter chosen at load: [name, webkit, msie]
  body,       \* document.body exists (the elements of the page are parsed)
  loaded,     \* the "dom:loaded" signal has fired
  observers,  \* callbacks waiting on "dom:loaded", in the order they were added
  handlers,   \* ids that have an entry in the handlers directory
  keys,       \* per id: the keys object of its handler (keyspec -> method)
  observed,   \* per element: how many keydown/keyup listener pairs are attached
  tabIndex,   \* per element: its tabIndex
  divs,       \* the accesskey divs appended to the page, in order
  applied,    \* the handler.register calls run so far, in the order they ran
  nCalls,     \* number of registration requests issued by the application
  last        \* what the last operation did

vars == <<lib, body, loaded, observers, handlers, keys, observed, tabIndex,
          divs, applied, nCalls, last>>

----------------------------------------------------------------------------
\* Bounds of the model.

\* registration requests issued in one behaviour
MaxRegs == 2
\* registration requests issued in one behaviour over the decoded key specs
MaxDecodeRegs == 1
\* registration requests issued in one behaviour over the key specs that
\* resolve to a common chord
MaxResolveRegs == 2
\* registration requests issued in one behaviour before the layout events
MaxChordRegs == 1
\* registration requests issued in one behaviour over the function-key and
\* Alt chords
MaxTrapRegs == 2
\* registration requests issued in one behaviour over the key specs with
\* base code 0
MaxSolitaryRegs == 1
\* registration requests issued in one behaviour over three targets
MaxFrameRegs == 2
\* registration requests issued in one behaviour over the whole broken table
MaxTableRegs == 1
\* listener pairs attached to one element (makeHandler calls that threw
\* leave theirs behind)
MaxListeners == 2

----------------------------------------------------------------------------
\* Key codes.

KEY == [
  BACKSPACE |-> 8, TAB |-> 9, ENTER |-> 13, BREAK |-> 19, CAPSLOCK |-> 20,
  ESC |-> 27, SPACE |-> 32, PAGEUP |-> 33, PAGEDOWN |-> 34, END |-> 35,
  HOME |-> 36, LEFT |-> 37, UP |-> 38, RIGHT |-> 39, DOWN |-> 40,
  INSERT |-> 45, DELETE |-> 46,
  ZERO |-> 48, ONE |-> 49, TWO |-> 50, THREE |-> 51, FOUR |-> 52,
  FIVE |-> 53, SIX |-> 54, SEVEN |-> 55, EIGHT |-> 56, NINE |-> 57,
  UMLAUT |-> 59,
  A |-> 65, B |-> 66, C |-> 67, D |-> 68, E |-> 69, F |-> 70, G |-> 71,
  H |-> 72, I |-> 73, J |-> 74, K |-> 75, L |-> 76, M |-> 77, N |-> 78,
  O |-> 79, P |-> 80, Q |-> 81, R |-> 82, S |-> 83, T |-> 84, U |-> 85,
  V |-> 86, W |-> 87, X |-> 88, Y |-> 89, Z |-> 90,
  NUMPAD0 |-> 96, NUMPAD1 |-> 97, NUMPAD2 |-> 98, NUMPAD3 |-> 99,
  NUMPAD4 |-> 100, NUMPAD5 |-> 101, NUMPAD6 |-> 102, NUMPAD7 |-> 103,
  NUMPAD8 |-> 104, NUMPAD9 |-> 105,
  MULTIPLY |-> 106, ADD |-> 107, SUBTRACT |-> 109, DECIMAL |-> 110,
  DIVIDE |-> 111,
  F1 |-> 112, F2 |-> 113, F3 |-> 114, F4 |-> 115, F5 |-> 116, F6 |-> 117,
  F7 |-> 118, F8 |-> 119, F9 |-> 120, F10 |-> 121, F11 |-> 122, F12 |-> 123,
  NUMLOCK |-> 144, SCROLL |-> 145,
  UMLAUT_2 |-> 186, PLUS |-> 187, COMMA |-> 188, MINUS |-> 189,
  PERIOD |-> 190, APOSTROPHE |-> 191, AE |-> 192, ACCENT |-> 219,
  HALF |-> 220, AA |-> 221, OE |-> 222, ANGLE |-> 226,
  CTRL |-> 256, SHIFT |-> 512, ALT |-> 1024 ]

KEYMASK  == 255
KEYSHIFT == 16
KEYCTRL  == 17
KEYALT   == 18

\* The key specs of the list of known unmappable keys (the properties of the
\* broken object; each holds a non-empty text, so broken[key] is truthy
\* exactly for these).
broken == {
  KEY.CTRL + KEY.TAB, KEY.ALT + KEY.TAB,
  KEY.ALT + KEY.ENTER,
  KEY.BREAK, KEY.CTRL + KEY.BREAK, KEY.SHIFT + KEY.BREAK, KEY.ALT + KEY.BREAK,
  KEY.CAPSLOCK, KEY.CTRL + KEY.CAPSLOCK, KEY.SHIFT + KEY.CAPSLOCK,
  KEY.ALT + KEY.CAPSLOCK,
  KEY.CTRL + KEY.ESC, KEY.ALT + KEY.ESC,
  KEY.CTRL + KEY.SPACE, KEY.ALT + KEY.SPACE,
  KEY.CTRL + KEY.PAGEUP,
  KEY.CTRL + KEY.PAGEDOWN,
  KEY.ALT + KEY.HOME,
  KEY.ALT + KEY.LEFT,
  KEY.ALT + KEY.RIGHT,
  KEY.CTRL + KEY.ZERO,
  KEY.UMLAUT, KEY.CTRL + KEY.UMLAUT, KEY.SHIFT + KEY.UMLAUT,
  KEY.ALT + KEY.UMLAUT,
  KEY.ALT + KEY.A,
  KEY.ALT + KEY.B,
  KEY.ALT + KEY.D,
  KEY.ALT + KEY.E,
  KEY.CTRL + KEY.F, KEY.ALT + KEY.F,
  KEY.ALT + KEY.H,
  KEY.ALT + KEY.I,
  KEY.CTRL + KEY.O,
  KEY.CTRL + KEY.P,
  KEY.ALT + KEY.V,
  KEY.ALT + KEY.W,
  KEY.SHIFT + KEY.NUMPAD0, KEY.SHIFT + KEY.NUMPAD1, KEY.SHIFT + KEY.NUMPAD2,
  KEY.SHIFT + KEY.NUMPAD3, KEY.SHIFT + KEY.NUMPAD4, KEY.SHIFT + KEY.NUMPAD5,
  KEY.SHIFT + KEY.NUMPAD6, KEY.SHIFT + KEY.NUMPAD7, KEY.SHIFT + KEY.NUMPAD8,
  KEY.SHIFT + KEY.NUMPAD9,
  KEY.CTRL + KEY.ADD,
  KEY.CTRL + KEY.SUBTRACT,
  KEY.SHIFT + KEY.DECIMAL,
  KEY.F1, KEY.CTRL + KEY.F1, KEY.SHIFT + KEY.F1,
  KEY.CTRL + KEY.F3,
  KEY.CTRL + KEY.F4, KEY.ALT + KEY.F4,
  KEY.F5,
  KEY.ALT + KEY.F6,
  KEY.CTRL + KEY.F8,
  KEY.F9, KEY.SHIFT + KEY.F9,
  KEY.F10, KEY.SHIFT + KEY.F10,
  KEY.F11, KEY.SHIFT + KEY.F11,
  KEY.F12, KEY.SHIFT + KEY.F12,
  KEY.NUMLOCK, KEY.CTRL + KEY.NUMLOCK, KEY.SHIFT + KEY.NUMLOCK,
  KEY.ALT + KEY.NUMLOCK,
  KEY.SCROLL, KEY.CTRL + KEY.SCROLL, KEY.SHIFT + KEY.SCROLL,
  KEY.ALT + KEY.SCROLL,
  KEY.PLUS, KEY.CTRL + KEY.PLUS, KEY.SHIFT + KEY.PLUS, KEY.ALT + KEY.PLUS,
  KEY.MINUS, KEY.CTRL + KEY.MINUS, KEY.SHIFT + KEY.MINUS, KEY.ALT + KEY.MINUS,
  KEY.ALT + KEY.AE,
  KEY.ACCENT, KEY.CTRL + KEY.ACCENT, KEY.SHIFT + KEY.ACCENT,
  KEY.ALT + KEY.ACCENT,
  KEY.HALF, KEY.CTRL + KEY.HALF, KEY.SHIFT + KEY.HALF, KEY.ALT + KEY.HALF,
  KEY.ALT }

\* keyIdentifier -> key code, Danish layout, for Safari
safariTranslator ==
  [ i \in { "U+0022", "U+0026", "U+0027", "U+0028", "U+0029", "U+002A",
            "U+002F", "U+003A", "U+003B", "U+003C", "U+003D", "U+003E",
            "U+003F", "U+00C5", "U+00C6", "U+00D8", "U+00E5", "U+00E6",
            "U+00F8", "U+20AC" } |->
      CASE i = "U+0022" -> KEY.TWO
        [] i = "U+0026" -> KEY.SIX
        [] i = "U+0027" -> KEY.APOSTROPHE
        [] i = "U+0028" -> KEY.EIGHT
        [] i = "U+0029" -> KEY.NINE
        [] i = "U+002A" -> KEY.APOSTROPHE
        [] i = "U+002F" -> KEY.SEVEN
        [] i = "U+003A" -> KEY.PERIOD
        [] i = "U+003B" -> KEY.COMMA
        [] i = "U+003C" -> KEY.ANGLE
        [] i = "U+003D" -> KEY.ZERO
        [] i = "U+003E" -> KEY.ANGLE
        [] i = "U+003F" -> KEY.PLUS
        [] i = "U+00C5" -> KEY.AA
        [] i = "U+00C6" -> KEY.AE
        [] i = "U+00D8" -> KEY.OE
        [] i = "U+00E5" -> KEY.AA
        [] i = "U+00E6" -> KEY.AE
        [] i = "U+00F8" -> KEY.OE
        [] i = "U+20AC" -> KEY.FOUR ]

\* This function detects all valid accesskeys in IE
isAccessKey(key, alt) ==
  alt /\ (   (key >= KEY.ZERO /\ key <= KEY.NINE)
          \/ (key >= KEY.A /\ key <= KEY.Z) )

----------------------------------------------------------------------------
\* The page, the methods and the events.

\* elements of the page; "body" and what it contains exist once body is TRUE
NodeName(el) ==
  CASE el = "document" -> "#document"
    [] el = "body"     -> "BODY"
    [] el = "myDiv"    -> "DIV"
    [] el = "myInput"  -> "INPUT"

\* myInput is a descendant of myDiv, myDiv of body
Elements == {"body", "myDiv", "myInput"}
Ids == {"document", "myDiv", "myInput"}

\* the nodes an event reaching the listeners of el can have originated on
Within(el) ==
  CASE el = "document" -> {"body", "myDiv", "myInput"}
    [] el = "body"     -> {"body", "myDiv", "myInput"}
    [] el = "myDiv"    -> {"myDiv", "myInput"}
    [] el = "myInput"  -> {"myInput"}

\* an element argument: the document, an element reference or an id string
Doc == <<"ref", "document">>
Ref(el) == <<"ref", el>>
Str(id) == <<"string", id>>

\* a method argument: a function, or an array [context, function]
Fn(f) == [type |-> "function", fn |-> f, context |-> "none"]
Pair(ctx, f) == [type |-> "object", fn |-> f, context |-> ctx]

NoMethod == [type |-> "undefined", fn |-> "none", context |-> "none"]
NoEvent == [keyCode |-> 0, ctrlKey |-> FALSE, shiftKey |-> FALSE,
            altKey |-> FALSE, keyIdentifier |-> "", target |-> "none"]

\* key & mask, for mask = 2^n - 1 and key >= 0
BitAndMask(key, mask) == key % (mask + 1)
\* !!(key & bit), for bit = 2^n and key >= 0
HasBit(key, bit) == (key \div bit) % 2 = 1

\* f with property k set to v
Put(f, k, v) == [x \in (DOMAIN f) \cup {k} |-> IF x = k THEN v ELSE f[x]]

----------------------------------------------------------------------------
\* What a handler does to its surroundings, in the order it does it.

Call(f, receiver, event) ==
  [do |-> "call", fn |-> f, this |-> receiver, arg |-> event, code |-> 0]
StopEvent == [do |-> "stopEvent", fn |-> "none", this |-> "none",
              arg |-> NoEvent, code |-> 0]
ZeroKeyCode == [do |-> "zeroKeyCode", fn |-> "none", this |-> "none",
                arg |-> NoEvent, code |-> 0]
SetStyle(c) == [do |-> "setStyle", fn |-> "none", this |-> "none",
                arg |-> NoEvent, code |-> c]
Throw == [do |-> "throw", fn |-> "none", this |-> "none",
          arg |-> NoEvent, code |-> 0]

\* lib.eventTarget: Event.element (Prototype) and event.target (jQuery) both
\* give the node the event originated on
eventTarget(event) == event.target

\* document.getElementById('__altkeyhandler_' + c) finds a div
HasDiv(dv, c) == \E i \in 1..Len(dv) : dv[i].id = c
FirstDiv(dv, c) == CHOOSE i \in 1..Len(dv) :
                     dv[i].id = c /\ \A j \in 1..(i - 1) : dv[j].id # c

\* the keyspec cancel computes for an event
cancelKey(event) ==
  IF lib.webkit /\ event.keyIdentifier # ""
       /\ event.keyIdentifier \in DOMAIN safariTranslator
  THEN <<safariTranslator[event.keyIdentifier], event.ctrlKey,
         event.shiftKey, event.altKey>>
  ELSE <<event.keyCode, event.ctrlKey, event.shiftKey, event.altKey>>

\* the keyspec computed with the identifier table consulted on every platform
monitorKeyAnyPlatform(event) ==
  IF event.keyIdentifier # "" /\ event.keyIdentifier \in DOMAIN safariTranslator
  THEN <<safariTranslator[event.keyIdentifier], event.ctrlKey,
         event.shiftKey, event.altKey>>
  ELSE <<event.keyCode, event.ctrlKey, event.shiftKey, event.altKey>>

\* the keyspec monitor computes for an event
monitorKey(event) ==
  IF lib.webkit /\ event.keyIdentifier # ""
       /\ event.keyIdentifier \in DOMAIN safariTranslator
  THEN <<safariTranslator[event.keyIdentifier], event.ctrlKey,
         event.shiftKey, event.altKey>>
  ELSE <<event.keyCode, event.ctrlKey, event.shiftKey, event.altKey>>

\* cancel with the lookup result ignored: every keydown is stopped
cancelEveryKey(ks, dv, event) ==
  [trace |-> <<StopEvent>>, keyCode |-> event.keyCode, divs |-> dv]

\* cancel(keys, event): the keydown listener. Gives what it did, the
\* event's keyCode afterwards and the accesskey divs afterwards.
cancel(ks, dv, event) ==
  LET key  == cancelKey(event)
      zero == lib.msie /\ event.keyCode >= 112 /\ event.keyCode <= 123
      kc   == IF zero THEN 0 ELSE event.keyCode
      acc  == lib.msie /\ isAccessKey(kc, event.altKey)
  IN IF key \in DOMAIN ks
     THEN [ trace |-> <<StopEvent>>
                      \o (IF zero THEN <<ZeroKeyCode>> ELSE << >>)
                      \o (IF ~acc THEN << >>
                          ELSE IF HasDiv(dv, kc) THEN <<SetStyle(kc)>>
                          \* Element.setStyle of Prototype dereferences the
                          \* missing element; jQuery(...).css on no element
                          \* does nothing
                          ELSE IF lib.name = "prototype" THEN <<Throw>>
                          ELSE << >>),
            keyCode |-> kc,
            divs |-> IF acc /\ HasDiv(dv, kc)
                     THEN [dv EXCEPT ![FirstDiv(dv, kc)].placed = TRUE]
                     ELSE dv ]
     ELSE [trace |-> << >>, keyCode |-> event.keyCode, divs |-> dv]

\* monitor with the event stopped before the method is called
monitorStopFirst(ks, event) ==
  LET key == monitorKey(event)
  IN IF key \in DOMAIN ks
     THEN <<StopEvent, Call(ks[key].fn, ks[key].context, event)>>
     ELSE << >>

\* monitor with the event stopped whether or not a method is found
monitorStopAlways(ks, event) ==
  LET key == monitorKey(event)
  IN IF key \in DOMAIN ks
     THEN <<Call(ks[key].fn, ks[key].context, event), StopEvent>>
     ELSE <<StopEvent>>

\* monitor that acts only on the key-up that follows a key-down
monitorIfPressed(ks, event) ==
  LET key == monitorKey(event)
  IN IF key \in DOMAIN ks /\ last.op = "keydown"
     THEN <<Call(ks[key].fn,
                 IF ks[key].type = "function" THEN eventTarget(event)
                 ELSE ks[key].context, event), StopEvent>>
     ELSE << >>

\* monitor(keys, event): the keyup listener. Gives what it did.
monitor(ks, event) ==
  LET key == monitorKey(event)
  IN IF key \in DOMAIN ks
     THEN LET handler == ks[key]
          IN (CASE handler.type = "function" ->
                     <<Call(handler.fn, eventTarget(event), event)>>
                [] handler.type = "object" ->
                     <<Call(handler.fn, handler.context, event)>>
                [] OTHER -> << >>)
             \o <<StopEvent>>
     ELSE << >>

----------------------------------------------------------------------------
\* handler.register

\* the decoding with the ctrl and shift bits taken for each other
keyIndexSwapped(key) ==
  << BitAndMask(key, KEYMASK), HasBit(key, KEY.SHIFT), HasBit(key, KEY.CTRL),
     HasBit(key, KEY.ALT) >>

\* [keyCode, ctrlKey, shiftKey, altKey] as decoded from the key spec
keyIndex(key) ==
  << BitAndMask(key, KEYMASK), HasBit(key, KEY.CTRL), HasBit(key, KEY.SHIFT),
     HasBit(key, KEY.ALT) >>

\* the solitary mappings with the modifier's own flag left set
solitaryIndexFlagged(key) ==
  IF keyIndex(key)[1] = 0
  THEN CASE key = KEY.CTRL  -> <<KEYCTRL, TRUE, FALSE, FALSE>>
         [] key = KEY.SHIFT -> <<KEYSHIFT, FALSE, TRUE, FALSE>>
         [] key = KEY.ALT   -> <<KEYALT, FALSE, FALSE, TRUE>>
         [] OTHER           -> keyIndex(key)
  ELSE keyIndex(key)

\* the index after the Ctrl, Shift and Alt solitary mappings
solitaryIndex(key) ==
  IF keyIndex(key)[1] = 0
  THEN CASE key = KEY.CTRL  -> <<KEYCTRL, FALSE, FALSE, FALSE>>
         [] key = KEY.SHIFT -> <<KEYSHIFT, FALSE, FALSE, FALSE>>
         [] key = KEY.ALT   -> <<KEYALT, FALSE, FALSE, FALSE>>
         [] OTHER           -> keyIndex(key)
  ELSE keyIndex(key)

\* the check for broken keys with the override parameter ignored
brokenRefusedAlways(key, override) == key \in broken

\* the check for broken keys refuses the call
brokenRefused(key, override) == key \in broken /\ ~override

\* keys[index] = method without the umlaut alias
storeMethodNoAlias(ks, index, method) == Put(ks, index, method)

\* the keys object after keys[index] = method and the umlaut alias
storeMethod(ks, index, method) ==
  LET ks1 == Put(ks, index, method)
  IN IF index[1] = KEY.UMLAUT
     THEN Put(ks1, <<KEY.UMLAUT_2, index[2], index[3], index[4]>>, method)
     ELSE ks1

\* the accesskey div register makes for IE; Element.setStyle is Prototype's,
\* so without Prototype the call throws before the div is appended
accessKeyDiv(dv, el, index) ==
  IF lib.msie /\ isAccessKey(index[1], index[4])
  THEN IF lib.name = "prototype"
       THEN [divs |-> Append(dv, [id |-> index[1],
                                  parent |-> IF el = "document" THEN "body" ELSE el,
                                  placed |-> FALSE]),
             threw |-> FALSE]
       ELSE [divs |-> dv, threw |-> TRUE]
  ELSE [divs |-> dv, threw |-> FALSE]

\* register without the check for a key that is already mapped
registerOverwriting(ks, dv, el, key, method, override) ==
  LET index == solitaryIndex(key)
  IN IF brokenRefused(key, override)
     THEN [result |-> "broken", keys |-> ks, divs |-> dv, threw |-> FALSE]
     ELSE [result |-> "ok", keys |-> storeMethod(ks, index, method),
           divs |-> accessKeyDiv(dv, el, index).divs,
           threw |-> accessKeyDiv(dv, el, index).threw]

\* register(key, method, override) of the handler of element el, whose keys
\* object is ks
register(ks, dv, el, key, method, override) ==
  LET index == solitaryIndex(key)
  IN IF brokenRefused(key, override)
     THEN [result |-> "broken", keys |-> ks, divs |-> dv, threw |-> FALSE]
     ELSE IF index \in DOMAIN ks
     THEN [result |-> "conflict", keys |-> ks, divs |-> dv, threw |-> FALSE]
     ELSE LET d == accessKeyDiv(dv, el, index)
          IN [result |-> "ok", keys |-> storeMethod(ks, index, method),
              divs |-> d.divs, threw |-> d.threw]

----------------------------------------------------------------------------
\* The factory. The operators below take and give the part of the state the
\* factory and the handlers write: [handlers, keys, observed, tabIndex, divs,
\* applied].

World == [handlers |-> handlers, keys |-> keys, observed |-> observed,
          tabIndex |-> tabIndex, divs |-> divs, applied |-> applied]

\* the element an element argument stands for; an id string is looked up
\* with document.getElementById
elementOf(element) == element[2]

\* the element is in the document
exists(el) == el = "document" \/ body

\* makeHandler(element): observes keydown and keyup, then makes the target
\* focusable; for the document before document.body exists, target is null
\* and reading target.tabIndex throws after the listeners are attached
makeHandler(w, element) ==
  LET el     == elementOf(element)
      target == IF el = "document" THEN "body" ELSE el
      w1     == [w EXCEPT !.observed[el] = @ + 1]
  IN IF ~exists(target)
     THEN [w |-> w1, threw |-> TRUE]
     ELSE [w |-> IF w1.tabIndex[target] = -1 \/ w1.tabIndex[target] = 0
                 THEN [w1 EXCEPT !.tabIndex[target] =
                         IF NodeName(target) = "INPUT" THEN 0 ELSE -1]
                 ELSE w1,
           threw |-> FALSE]

\* factory.handlerFor(element); lib.identify throws for an id string that
\* names no element of the document
handlerFor(w, element) ==
  LET el == elementOf(element)
      id == el
  IN IF ~exists(el)
     THEN [w |-> w, id |-> id, threw |-> TRUE]
     ELSE IF id \in w.handlers
     THEN [w |-> w, id |-> id, threw |-> FALSE]
     ELSE LET m == makeHandler(w, element)
          IN IF m.threw
             THEN [w |-> m.w, id |-> id, threw |-> TRUE]
             ELSE [w |-> [m.w EXCEPT !.handlers = @ \cup {id}],
                   id |-> id, threw |-> FALSE]

\* one request as the application issued it
Request(seq, element, key, method, override) ==
  [seq |-> seq, element |-> element, key |-> key, method |-> method,
   override |-> override]

\* handler.register with one keys object shared by every handler
handlerRegisterShared(w, id, c) ==
  LET r == register(w.keys[id], w.divs, id, c.key, c.method, c.override)
  IN [w |-> [w EXCEPT !.keys = [i \in DOMAIN w.keys |-> r.keys],
                      !.divs = r.divs,
                      !.applied = Append(@, [seq |-> c.seq, id |-> id,
                                             key |-> c.key,
                                             method |-> c.method,
                                             override |-> c.override,
                                             result |-> r.result])],
      id |-> id, result |-> r.result, threw |-> r.threw]

\* handler.register of the handler of id, run for request c
handlerRegister(w, id, c) ==
  LET r == register(w.keys[id], w.divs, id, c.key, c.method, c.override)
  IN [w |-> [w EXCEPT !.keys[id] = r.keys,
                      !.divs = r.divs,
                      !.applied = Append(@, [seq |-> c.seq, id |-> id,
                                             key |-> c.key,
                                             method |-> c.method,
                                             override |-> c.override,
                                             result |-> r.result])],
      id |-> id, result |-> r.result, threw |-> r.threw]

\* the branch of factory.register that registers the key immediately
registerNow(w, c) ==
  LET h == handlerFor(w, c.element)
  IN IF h.threw
     THEN [w |-> h.w, id |-> h.id, result |-> "error", threw |-> TRUE]
     ELSE handlerRegister(h.w, h.id, c)

\* the "dom:loaded" observers run in the order they were added; each calls
\* Keyboard.register again, and document.body exists by then
RECURSIVE replay(_, _)
replay(w, obs) ==
  IF obs = << >> THEN w
  ELSE replay(registerNow(w, Head(obs)).w, Tail(obs))

----------------------------------------------------------------------------
\* Operations.

Outcome(op, id, c, result, threw, ev, trace, keyCode) ==
  [op |-> op, id |-> id, key |-> c.key, method |-> c.method,
   override |-> c.override, result |-> result, threw |-> threw,
   ev |-> ev, trace |-> trace, keyCode |-> keyCode]

NoRequest == Request(0, Doc, 0, NoMethod, FALSE)

SetWorld(w) ==
  /\ handlers' = w.handlers
  /\ keys' = w.keys
  /\ observed' = w.observed
  /\ tabIndex' = w.tabIndex
  /\ divs' = w.divs
  /\ applied' = w.applied

\* Keyboard.register(element, key, method, override)
KeyboardRegister(element, key, method, override) ==
  LET c == Request(nCalls + 1, element, key, method, override)
  IN /\ element[1] = "ref" /\ element # Doc => body
     /\ nCalls' = nCalls + 1
     /\ IF body
        THEN LET r == registerNow(World, c)
             IN /\ SetWorld(r.w)
                /\ last' = Outcome("register", r.id, c, r.result, r.threw,
                                   NoEvent, << >>, 0)
                /\ UNCHANGED observers
        ELSE \* document.observe is Prototype's; without it the call throws
             IF lib.name = "prototype"
             THEN /\ observers' = Append(observers, c)
                  /\ last' = Outcome("register", elementOf(element), c,
                                     "deferred", FALSE, NoEvent, << >>, 0)
                  /\ SetWorld(World)
             ELSE /\ last' = Outcome("register", elementOf(element), c,
                                     "error", TRUE, NoEvent, << >>, 0)
                  /\ SetWorld(World)
                  /\ UNCHANGED observers
     /\ UNCHANGED <<lib, body, loaded>>

\* Keyboard.registerGlobal(key, method, override)
KeyboardRegisterGlobal(key, method, override) ==
  KeyboardRegister(Doc, key, method, override)

\* Keyboard.handlerFor(element)
KeyboardHandlerFor(element) ==
  LET h == handlerFor(World, element)
  IN /\ element[1] = "ref" /\ element # Doc => body
     /\ SetWorld(h.w)
     /\ last' = Outcome("handlerFor", h.id, NoRequest,
                        IF h.threw THEN "error" ELSE "ok", h.threw,
                        NoEvent, << >>, 0)
     /\ UNCHANGED <<lib, body, loaded, observers, nCalls>>

\* handler.register(key, method, override) on a handler that
\* Keyboard.handlerFor returned earlier
HandlerRegister(id, key, method, override) ==
  LET c == Request(nCalls + 1, Ref(id), key, method, override)
      r == handlerRegister(World, id, c)
  IN /\ id \in handlers
     /\ nCalls' = nCalls + 1
     /\ SetWorld(r.w)
     /\ last' = Outcome("register", id, c, r.result, r.threw, NoEvent,
                        << >>, 0)
     /\ UNCHANGED <<lib, body, loaded, observers>>

\* a keydown event reaches the listeners attached to the element of id
KeyDown(id, event) ==
  LET r == cancel(keys[id], divs, event)
  IN /\ body
     /\ observed[id] > 0
     /\ event.target \in Within(id)
     /\ divs' = r.divs
     /\ last' = Outcome("keydown", id, NoRequest, "none",
                        r.trace # << >> /\ r.trace[Len(r.trace)].do = "throw",
                        event, r.trace, r.keyCode)
     /\ UNCHANGED <<lib, body, loaded, observers, handlers, keys, observed,
                    tabIndex, applied, nCalls>>

\* a keyup event reaches the listeners attached to the element of id
KeyUp(id, event) ==
  LET t == monitor(keys[id], event)
  IN /\ body
     /\ observed[id] > 0
     /\ event.target \in Within(id)
     /\ last' = Outcome("keyup", id, NoRequest, "none", FALSE, event, t,
                        event.keyCode)
     /\ UNCHANGED <<lib, body, loaded, observers, handlers, keys, observed,
                    tabIndex, divs, applied, nCalls>>

\* the parser reaches <body>: document.body and the elements exist
BodyParsed ==
  /\ ~body
  /\ body' = TRUE
  /\ last' = Outcome("bodyParsed", "document", NoRequest, "none", FALSE,
                     NoEvent, << >>, 0)
  /\ UNCHANGED <<lib, loaded, observers, handlers, keys, observed, tabIndex,
                 divs, applied, nCalls>>

\* the document is loaded: "dom:loaded" fires once and its observers run
DomLoaded ==
  /\ body /\ ~loaded
  /\ loaded' = TRUE
  /\ SetWorld(replay(World, observers))
  /\ observers' = << >>
  /\ last' = Outcome("domLoaded", "document", NoRequest, "none", FALSE,
                     NoEvent, << >>, 0)
  /\ UNCHANGED <<lib, body, nCalls>>

----------------------------------------------------------------------------
\* The adapters: Prototype or jQuery, on WebKit, on IE or on another browser.

Libs == { l \in [name : {"prototype", "jquery"}, webkit : BOOLEAN,
                 msie : BOOLEAN] : ~(l.webkit /\ l.msie) }

Init ==
  /\ lib \in Libs
  \* the script runs in the head, or inside the body
  /\ body \in BOOLEAN
  /\ loaded = FALSE
  /\ observers = << >>
  /\ handlers = {}
  /\ keys = [id \in Ids |-> << >>]
  /\ observed = [id \in Ids |-> 0]
  \* IE gives 0 for an element without a tabindex attribute
  /\ tabIndex = [el \in Elements |->
                   IF NodeName(el) = "INPUT" \/ lib.msie THEN 0 ELSE -1]
  /\ divs = << >>
  /\ applied = << >>
  /\ nCalls = 0
  /\ last = Outcome("none", "document", NoRequest, "none", FALSE, NoEvent,
                    << >>, 0)

\* the script runs inside the body: document.body exists from the start
InitInBody == Init /\ body

\* the events of a set of key codes, modifier flags, key identifiers and
\* originating nodes
EventsOf(codes, mods, idents, origins) ==
  { [keyCode |-> k, ctrlKey |-> m[1], shiftKey |-> m[2], altKey |-> m[3],
     keyIdentifier |-> i, target |-> t] :
      k \in codes, m \in mods, i \in idents, t \in origins }

Plain == <<FALSE, FALSE, FALSE>>
CtrlOnly == <<TRUE, FALSE, FALSE>>
CtrlShift == <<TRUE, TRUE, FALSE>>

\* The general specification: every operation, from a script in the head or
\* in the body, two targets, one key spec.
Targets == {Doc, Str("myDiv")}
KeySpecs == {KEY.F}
Methods == {Fn("cb"), Fn("cb2")}
Events == EventsOf({KEY.F}, {Plain}, {""}, {"myDiv"})

Next ==
  \/ \E e \in Targets, k \in KeySpecs, m \in Methods :
       nCalls < MaxRegs /\ KeyboardRegister(e, k, m, FALSE)
  \/ \E k \in KeySpecs, m \in Methods :
       nCalls < MaxRegs /\ KeyboardRegisterGlobal(k, m, FALSE)
  \/ \E e \in Targets :
       observed[elementOf(e)] < MaxListeners /\ KeyboardHandlerFor(e)
  \/ \E id \in Ids, k \in KeySpecs, m \in Methods :
       nCalls < MaxRegs /\ HandlerRegister(id, k, m, FALSE)
  \/ \E id \in Ids, ev \in Events : KeyDown(id, ev)
  \/ \E id \in Ids, ev \in Events : KeyUp(id, ev)
  \/ BodyParsed
  \/ DomLoaded

Spec == Init /\ [][Next]_vars

\* Dispatch: one target, a plain and a broken key spec, functions and
\* [context, function] pairs, events from the element and from a descendant.
DispatchKeySpecs == {KEY.F, KEY.CTRL + KEY.F}
DispatchMethods == {Fn("cb"), Pair("ctx", "cb2")}
DispatchEvents == EventsOf({KEY.F}, {Plain, CtrlOnly}, {"", "U+00C6"},
                           {"myDiv", "myInput"})

NextDispatch ==
  \/ \E k \in DispatchKeySpecs, m \in DispatchMethods, o \in BOOLEAN :
       nCalls < MaxRegs /\ KeyboardRegister(Str("myDiv"), k, m, o)
  \/ \E ev \in DispatchEvents : KeyDown("myDiv", ev)
  \/ \E ev \in DispatchEvents : KeyUp("myDiv", ev)

SpecDispatch == InitInBody /\ [][NextDispatch]_vars

\* The umlaut key and its second code, with and without modifiers.
UmlautKeySpecs == {KEY.UMLAUT, KEY.UMLAUT_2,
                   KEY.CTRL + KEY.SHIFT + KEY.UMLAUT, KEY.F}
UmlautMethods == {Fn("cb"), Fn("cb2")}
UmlautEvents == EventsOf({KEY.UMLAUT, KEY.UMLAUT_2}, {Plain}, {""},
                         {"myDiv"})

NextUmlaut ==
  \/ \E k \in UmlautKeySpecs, m \in UmlautMethods, o \in BOOLEAN :
       nCalls < MaxRegs /\ KeyboardRegister(Ref("myDiv"), k, m, o)
  \/ \E ev \in UmlautEvents : KeyUp("myDiv", ev)

SpecUmlaut == InitInBody /\ [][NextUmlaut]_vars

\* The whole list of known unmappable keys, on the document.
NextTable ==
  \/ \E k \in broken, m \in {Fn("cb")}, o \in BOOLEAN :
       nCalls < MaxTableRegs /\ KeyboardRegisterGlobal(k, m, o)

SpecTable == InitInBody /\ [][NextTable]_vars

\* Loading: requests through the factory only, from a script in the head or
\* in the body, until after "dom:loaded".
LoadTargets == {Doc, Str("myDiv")}
LoadKeySpecs == {KEY.F, KEY.CTRL + KEY.F}
LoadMethods == {Fn("cb"), Fn("cb2")}
LoadEvents == EventsOf({KEY.F}, {Plain, CtrlOnly}, {""}, {"myDiv"})

NextLoad ==
  \/ \E e \in LoadTargets, k \in LoadKeySpecs, m \in LoadMethods,
        o \in BOOLEAN :
       nCalls < MaxRegs /\ KeyboardRegister(e, k, m, o)
  \/ \E k \in LoadKeySpecs, m \in LoadMethods, o \in BOOLEAN :
       nCalls < MaxRegs /\ KeyboardRegisterGlobal(k, m, o)
  \/ \E id \in {"document", "myDiv"}, ev \in LoadEvents : KeyUp(id, ev)
  \/ BodyParsed
  \/ DomLoaded

SpecLoad == Init /\ [][NextLoad]_vars

\* Decoding: base codes at the ends of the range, the two umlaut codes and
\* a letter, with every combination of the three modifier bits.
AllMods == {<<c, sh, a>> : c \in BOOLEAN, sh \in BOOLEAN, a \in BOOLEAN}
DecodeCodes == {1, KEY.UMLAUT, KEY.F, KEY.UMLAUT_2, KEYMASK}
DecodeKeySpecs ==
  { k + (IF m[1] THEN KEY.CTRL ELSE 0) + (IF m[2] THEN KEY.SHIFT ELSE 0)
      + (IF m[3] THEN KEY.ALT ELSE 0) : k \in DecodeCodes, m \in AllMods }
DecodeEvents == EventsOf({KEY.UMLAUT, KEY.UMLAUT_2}, {Plain, CtrlShift}, {""},
                         {"myDiv"})

NextDecode ==
  \/ \E k \in DecodeKeySpecs, o \in BOOLEAN :
       nCalls < MaxDecodeRegs /\ KeyboardRegister(Str("myDiv"), k, Fn("cb"), o)
  \/ \E ev \in DecodeEvents : KeyUp("myDiv", ev)

SpecDecode == InitInBody /\ [][NextDecode]_vars

\* Resolution: key specs taken in pairs that resolve to one chord (a lone
\* modifier bit and the modifier's own key code; an integer with and without
\* a bit above 2047).
HighBit == 2 * KEY.ALT
ResolveKeySpecs ==
  { KEY.ALT, 18, KEY.CTRL, 17, KEY.SHIFT, 16,
    KEY.CTRL + KEY.F, KEY.CTRL + KEY.F + HighBit, KEY.F, KEY.F + HighBit }
AltOnly == <<FALSE, FALSE, TRUE>>
ResolveEvents == EventsOf({18, KEY.F}, {Plain, CtrlOnly}, {""}, {"myDiv"})

NextResolve ==
  \/ \E k \in ResolveKeySpecs, o \in BOOLEAN :
       nCalls < MaxResolveRegs /\ KeyboardRegister(Str("myDiv"), k, Fn("cb"), o)
  \/ \E ev \in ResolveEvents : KeyUp("myDiv", ev)

SpecResolve == InitInBody /\ [][NextResolve]_vars

\* Layouts: the umlaut key under its two codes, a Danish key reported by
\* code or by identifier, and a letter whose identifier is not in the table.
ChordKeySpecs == {KEY.UMLAUT, KEY.UMLAUT_2, KEY.AE}
ChordEvents ==
  EventsOf({KEY.UMLAUT, KEY.UMLAUT_2, KEY.AE, KEY.F}, {Plain, CtrlShift},
           {"", "U+00C6", "U+0046"}, {"myDiv"})

NextChord ==
  \/ \E k \in ChordKeySpecs, o \in BOOLEAN :
       nCalls < MaxChordRegs /\ KeyboardRegister(Str("myDiv"), k, Fn("cb"), o)
  \/ \E ev \in ChordEvents : KeyDown("myDiv", ev)
  \/ \E ev \in ChordEvents : KeyUp("myDiv", ev)

SpecChord == InitInBody /\ [][NextChord]_vars

\* Internet Explorer corrections: a function key, Alt with a letter (one of
\* them in the broken table), the letter alone and Alt with a function key.
TrapKeySpecs ==
  {KEY.F2, KEY.ALT + KEY.C, KEY.ALT + KEY.A, KEY.C, KEY.ALT + KEY.F2}
TrapEvents == EventsOf({KEY.F2, KEY.C, KEY.A}, {Plain, AltOnly}, {""},
                       {"myDiv"})

NextTrap ==
  \/ \E k \in TrapKeySpecs, o \in BOOLEAN :
       nCalls < MaxTrapRegs /\ KeyboardRegister(Str("myDiv"), k, Fn("cb"), o)
  \/ \E ev \in TrapEvents : KeyDown("myDiv", ev)
  \/ \E ev \in TrapEvents : KeyUp("myDiv", ev)

SpecTrap == InitInBody /\ [][NextTrap]_vars

\* Modifiers alone: every key spec with base code 0 and at least one
\* modifier bit, and the events of the modifier keys with and without flags.
SolitaryKeySpecs ==
  { (IF m[1] THEN KEY.CTRL ELSE 0) + (IF m[2] THEN KEY.SHIFT ELSE 0)
      + (IF m[3] THEN KEY.ALT ELSE 0) : m \in AllMods \ {Plain} }
SolitaryEvents ==
  EventsOf({0, KEYSHIFT, KEYCTRL, KEYALT}, {Plain, CtrlOnly, CtrlShift, AltOnly},
           {""}, {"myDiv"})

NextSolitary ==
  \/ \E k \in SolitaryKeySpecs, o \in BOOLEAN :
       nCalls < MaxSolitaryRegs
       /\ KeyboardRegister(Str("myDiv"), k, Fn("cb"), o)
  \/ \E ev \in SolitaryEvents : KeyDown("myDiv", ev)
  \/ \E ev \in SolitaryEvents : KeyUp("myDiv", ev)

SpecSolitary == InitInBody /\ [][NextSolitary]_vars

\* Three targets, one inside another and both inside the document; a key
\* spec that is accepted, one that is refused as broken and one that gets
\* an accesskey div; events that bubble from the inner elements.
FrameTargets == {Doc, Str("myDiv"), Ref("myInput")}
FrameKeySpecs == {KEY.F, KEY.CTRL + KEY.F, KEY.ALT + KEY.C}
FrameEvents ==
  EventsOf({KEY.F}, {Plain}, {""}, {"myDiv", "myInput"})
    \cup EventsOf({KEY.C}, {AltOnly}, {""}, {"myDiv", "myInput"})

NextFrame ==
  \/ \E t \in FrameTargets, k \in FrameKeySpecs :
       nCalls < MaxFrameRegs /\ KeyboardRegister(t, k, Fn("cb"), FALSE)
  \/ \E id \in Ids, ev \in FrameEvents : KeyDown(id, ev)
  \/ \E id \in Ids, ev \in FrameEvents : KeyUp(id, ev)

SpecFrame == InitInBody /\ [][NextFrame]_vars

----------------------------------------------------------------------------
\* Properties.

\* the chord of a raw key event (ChordCodec.normalize)
Normalize(event) ==
  IF lib.webkit /\ event.keyIdentifier # ""
       /\ event.keyIdentifier \in DOMAIN safariTranslator
  THEN <<safariTranslator[event.keyIdentifier], event.ctrlKey,
         event.shiftKey, event.altKey>>
  ELSE <<event.keyCode, event.ctrlKey, event.shiftKey, event.altKey>>

\* the chord a chord-specification integer stands for: the low 8 bits and
\* the three modifier bits; a modifier alone stands for its own key code
ChordOf(key) ==
  CASE key = KEY.CTRL  -> <<17, FALSE, FALSE, FALSE>>
    [] key = KEY.SHIFT -> <<16, FALSE, FALSE, FALSE>>
    [] key = KEY.ALT   -> <<18, FALSE, FALSE, FALSE>>
    [] OTHER -> <<key % 256, (key \div 256) % 2 = 1, (key \div 512) % 2 = 1,
                  (key \div 1024) % 2 = 1>>

Bound(id, chord) == chord \in DOMAIN keys[id]

\* the event's default action was suppressed and its propagation stopped
Stopped(trace) == \E i \in 1..Len(trace) : trace[i].do = "stopEvent"
\* the positions of a trace at which a callback is invoked
CallsIn(trace) == {i \in 1..Len(trace) : trace[i].do = "call"}
CallsOf(trace, f) == {i \in CallsIn(trace) : trace[i].fn = f}

\* this step is a register call that reached handler.register of last'.id
RegisterStep ==
  /\ nCalls' = nCalls + 1
  /\ last'.op = "register"
  /\ last'.result \in {"ok", "broken", "conflict"}

\* this step delivers a key event
EventStep == last' # last /\ last'.op \in {"keydown", "keyup"}

CtrlF(event) ==
  /\ event.keyCode = 70 /\ event.ctrlKey
  /\ ~event.shiftKey /\ ~event.altKey

\* C1: once register("myDiv", 326, cb) without override is the one
\* registration made on the fresh target, a key-down with keyCode 70 and
\* ctrl only followed by the key-up of the same key invokes cb exactly once
\* and the default action is suppressed on both the key-down and the key-up.
C1_CtrlFEndToEnd ==
  [][ ( /\ Len(applied) = 1
        /\ applied[1].id = "myDiv" /\ applied[1].key = 326
        /\ applied[1].method = Fn("cb") /\ ~applied[1].override
        /\ last.op = "keydown" /\ last.id = "myDiv" /\ CtrlF(last.ev)
        /\ last'.op = "keyup" /\ last'.id = "myDiv" /\ CtrlF(last'.ev) )
      => ( /\ Stopped(last.trace) /\ Stopped(last'.trace)
           /\ Cardinality(CallsOf(last.trace, "cb"))
                + Cardinality(CallsOf(last'.trace, "cb")) = 1 ) ]_vars

C3_AlwaysConflict ==
  [][ ( RegisterStep /\ Bound(last'.id, ChordOf(last'.key)) )
      => ( /\ last'.result = "conflict"
           /\ keys'[last'.id][ChordOf(last'.key)]
                = keys[last'.id][ChordOf(last'.key)] ) ]_vars

\* C3 as amended: a register call for a chord that is already bound fails
\* and the chord keeps its binding; it fails with the broken-chord error when
\* the chord integer is in the broken table and override is false, and with
\* the conflict error otherwise.
C3_BoundChordRefused ==
  [][ ( RegisterStep /\ Bound(last'.id, ChordOf(last'.key)) )
      => ( /\ last'.result
                = (IF last'.key \in broken /\ ~last'.override
                   THEN "broken" ELSE "conflict")
           /\ keys' = keys ) ]_vars

C3_Witness ==
  /\ last.op = "register" /\ last.result = "conflict" /\ last.override
  /\ Bound(last.id, ChordOf(last.key))
  /\ keys[last.id][ChordOf(last.key)] # last.method

\* C4: bindings are write-once: a chord that is bound keeps its binding
\* through every register call and every key event.
C4_WriteOnce ==
  [][ \A id \in Ids : \A c \in DOMAIN keys[id] :
        c \in DOMAIN keys'[id] /\ keys'[id][c] = keys[id][c] ]_vars

\* C5: a successful register call with base code 59 and modifier flags m
\* leaves both (59, m) and (186, m) bound to the binding passed; a successful
\* register call with another base code binds exactly one chord.
C5_UmlautAlias ==
  [][ ( RegisterStep /\ last'.result = "ok" )
      => LET id == last'.id
             c  == ChordOf(last'.key)
         IN IF last'.key % 256 = 59
            THEN /\ c[1] = 59
                 /\ {c, <<186, c[2], c[3], c[4]>>} \subseteq DOMAIN keys'[id]
                 /\ keys'[id][c] = last'.method
                 /\ keys'[id][<<186, c[2], c[3], c[4]>>] = last'.method
            ELSE /\ Cardinality((DOMAIN keys'[id]) \ (DOMAIN keys[id])) = 1
                 /\ \A d \in DOMAIN keys[id] : keys'[id][d] = keys[id][d] ]_vars

C5_Witness ==
  /\ last.op = "register" /\ last.result = "ok"
  /\ last.key = KEY.CTRL + KEY.SHIFT + KEY.UMLAUT
  /\ Bound("myDiv", <<59, TRUE, TRUE, FALSE>>)
  /\ Bound("myDiv", <<186, TRUE, TRUE, FALSE>>)
  /\ keys["myDiv"][<<186, TRUE, TRUE, FALSE>>] = last.method

\* C6: a key-up whose chord is bound invokes the bound callback exactly
\* once, with the event as argument, then suppresses the default action and
\* stops propagation; no other callback is invoked.
C6_KeyUpDispatch ==
  ( last.op = "keyup" /\ Bound(last.id, Normalize(last.ev)) )
  => ( /\ Len(last.trace) = 2
       /\ last.trace[1].do = "call"
       /\ last.trace[1].fn = keys[last.id][Normalize(last.ev)].fn
       /\ last.trace[1].arg = last.ev
       /\ last.trace[2].do = "stopEvent" )

C6_Witness ==
  /\ last.op = "keyup" /\ Bound(last.id, Normalize(last.ev))
  /\ last.trace[1].fn = "cb2"
  /\ Cardinality(DOMAIN keys[last.id]) = 2

\* C7: a key-down is suppressed and stopped exactly when its chord is bound
\* in the target's registry, and it never invokes a callback.
C7_KeyDownSuppression ==
  last.op = "keydown"
  => ( /\ Stopped(last.trace) <=> Bound(last.id, Normalize(last.ev))
       /\ CallsIn(last.trace) = {} )

C7_Witness ==
  /\ last.op = "keydown" /\ Bound(last.id, Normalize(last.ev))
  /\ Stopped(last.trace)
  /\ lib.webkit

\* C8: a key-down or key-up whose chord is not bound invokes no callback,
\* does not suppress the default action and leaves every registry and the
\* handler directory unchanged.
C8_UnboundIsNoOp ==
  [][ ( EventStep /\ ~Bound(last'.id, Normalize(last'.ev)) )
      => ( /\ last'.trace = << >>
           /\ keys' = keys
           /\ handlers' = handlers ) ]_vars

C8_Witness ==
  /\ last.op = "keyup" /\ ~Bound(last.id, Normalize(last.ev))
  /\ keys[last.id] # << >>
  /\ last.trace = << >>

\* C9: a binding registered as a bare callback is invoked with the bound
\* element as receiver, also when the event originated on a descendant; a
\* [context, callback] pair is invoked with the context as receiver.
C9_ReceiverIsBoundElement ==
  ( last.op = "keyup" /\ Bound(last.id, Normalize(last.ev)) )
  => \A i \in CallsIn(last.trace) :
       last.trace[i].this
         = (IF keys[last.id][Normalize(last.ev)].type = "function"
            THEN last.id
            ELSE keys[last.id][Normalize(last.ev)].context)

\* C10: registrations are applied in the order in which they were requested,
\* and of two requests for the same chord on the same target the earlier one
\* obtains the binding and the later one is refused as a conflict.
C10_AppliedInRequestOrder ==
  \A i, j \in 1..Len(applied) :
    /\ i < j => applied[i].seq < applied[j].seq
    /\ ( /\ i # j
         /\ applied[i].id = applied[j].id
         /\ ChordOf(applied[i].key) = ChordOf(applied[j].key)
         /\ applied[i].result = "ok" )
       => ( applied[i].seq < applied[j].seq
            /\ applied[j].result = "conflict" )

\* the entries of applied that ran request number n
AppliedOf(n) == {i \in 1..Len(applied) : applied[i].seq = n}

\* C11: a register or registerGlobal call made before the ready signal
\* changes no registry and creates no handler when it is made; once the
\* ready signal has fired every such call has been applied exactly once, and
\* its chord is bound unless it was refused as broken or as a conflict.
C11_QueuedUntilReady ==
  /\ [][ ( nCalls' = nCalls + 1 /\ ~loaded )
         => ( keys' = keys /\ handlers' = handlers
              /\ observed' = observed ) ]_vars
  /\ [] ( loaded
          => \A n \in 1..nCalls :
               /\ Cardinality(AppliedOf(n)) = 1
               /\ \A i \in AppliedOf(n) :
                    applied[i].result = "ok"
                    => Bound(applied[i].id, ChordOf(applied[i].key)) )

\* C12: handlerFor is idempotent: the keydown and keyup listeners are
\* attached to a target exactly once, when its directory entry is created,
\* and a directory entry, once created, is never removed or replaced (its
\* registry only grows out of the one it had).
C12_HandlerForIdempotent ==
  /\ [] ( \A id \in Ids :
            /\ observed[id] <= 1
            /\ id \in handlers => observed[id] = 1 )
  /\ [][ /\ handlers \subseteq handlers'
         /\ \A id \in handlers :
              (last'.op = "handlerFor" => keys'[id] = keys[id]) ]_vars

\* the chord (k, ctrl, shift, alt) encoded by an integer with a non-zero base
\* code, and the integer that encodes a chord
Encoded(key) ==
  <<key % 256, (key \div 256) % 2 = 1, (key \div 512) % 2 = 1,
    (key \div 1024) % 2 = 1>>
Encode(chord) ==
  chord[1] + (IF chord[2] THEN 256 ELSE 0) + (IF chord[3] THEN 512 ELSE 0)
    + (IF chord[4] THEN 1024 ELSE 0)

\* this step is an accepted register call that makes exactly the chords of
\* the set cs resolve to the method passed and leaves every other chord of
\* the registry as it was
BindsExactly(cs) ==
  /\ DOMAIN keys'[last'.id] = (DOMAIN keys[last'.id]) \cup cs
  /\ \A c \in cs : keys'[last'.id][c] = last'.method
  /\ \A c \in (DOMAIN keys[last'.id]) \ cs :
       keys'[last'.id][c] = keys[last'.id][c]

\* C13 as claimed: an accepted register call for an integer in 1..2047
\* with a non-zero base code binds exactly the chord it encodes, so that
\* distinct integers bind distinct chords and an event matches the binding
\* exactly when its code and its three flags equal the encoded ones.
C13_BindsEncodedChordOnly ==
  [][ ( /\ RegisterStep /\ last'.result = "ok"
        /\ last'.key \in 1..2047 /\ last'.key % 256 # 0 )
      => ( /\ BindsExactly({Encoded(last'.key)})
           /\ Encode(Encoded(last'.key)) = last'.key ) ]_vars

\* C13 as amended: the same for every base code other than 59; an accepted
\* register call with base code 59 binds the chord it encodes and the chord
\* with base code 186 and the same flags, and nothing else.
C13_BindsEncodedChord ==
  [][ ( /\ RegisterStep /\ last'.result = "ok"
        /\ last'.key \in 1..2047 /\ last'.key % 256 # 0 )
      => LET c == Encoded(last'.key)
         IN /\ BindsExactly(IF c[1] = 59
                            THEN {c, <<186, c[2], c[3], c[4]>>}
                            ELSE {c})
            /\ Encode(c) = last'.key ]_vars

C13_Witness ==
  /\ last.op = "register" /\ last.result = "ok"
  /\ last.key = 255 + 512 + 1024
  /\ DOMAIN keys["myDiv"] = {<<255, FALSE, TRUE, TRUE>>}

\* the flag bits of a key spec, and the key spec with the primary umlaut code
\* and the same flags
ModBits(key) == key - (key % 256)
AsUmlaut(key) == KEY.UMLAUT + ModBits(key)

\* C14: the secondary umlaut code 186 is an alias of the primary code 59
\* for the broken check and for matching: a register call without override
\* whose base code is 59 or 186 is refused as broken exactly when the key
\* spec with base code 59 and the same flags is in the broken table, and an
\* accepted register call under either code binds the chords of both codes
\* with those flags.
C14_SecondaryUmlautIsAlias ==
  [][ ( /\ RegisterStep
        /\ last'.key % 256 \in {KEY.UMLAUT, KEY.UMLAUT_2}
        /\ last'.key \in 1..2047 )
      => LET c == Encoded(last'.key)
         IN /\ ( ( ~last'.override /\ keys[last'.id] = << >> )
                 => ( last'.result = "broken"
                      <=> AsUmlaut(last'.key) \in broken ) )
            /\ ( last'.result = "ok"
                 => {<<KEY.UMLAUT, c[2], c[3], c[4]>>,
                     <<KEY.UMLAUT_2, c[2], c[3], c[4]>>}
                      \subseteq DOMAIN keys'[last'.id] )
    ]_vars

\* C15: whether a register call without override on an empty registry is
\* refused as broken depends on the resolved chord alone: it is refused
\* exactly when some integer of the broken table resolves to the chord the
\* call's integer resolves to, so two integers with one chord are both
\* refused or both accepted.
C15_RefusalByResolvedChord ==
  [][ ( RegisterStep /\ ~last'.override /\ keys[last'.id] = << >> )
      => ( last'.result = "broken"
           <=> \E b \in broken : ChordOf(b) = ChordOf(last'.key) ) ]_vars

\* the other raw events that represent the physical key of an event, with
\* the same flags: the umlaut key under its other code, and a key reported
\* on webkit through an identifier of the table reported through its own code
Twins(e) ==
  LET translated == lib.webkit /\ e.keyIdentifier \in DOMAIN safariTranslator
  IN  (IF ~translated /\ e.keyCode = KEY.UMLAUT
       THEN {[e EXCEPT !.keyCode = KEY.UMLAUT_2]} ELSE {})
      \cup
      (IF ~translated /\ e.keyCode = KEY.UMLAUT_2
       THEN {[e EXCEPT !.keyCode = KEY.UMLAUT]} ELSE {})
      \cup
      (IF translated
       THEN {[e EXCEPT !.keyCode = safariTranslator[e.keyIdentifier],
                       !.keyIdentifier = ""]}
       ELSE {})

\* C16: for every event delivered, the key-down and the key-up handler
\* compute for each other raw event of the same physical key and flags the
\* chord they compute for the delivered one.
C16_LayoutNormalization ==
  [][ EventStep
      => \A e2 \in Twins(last'.ev) :
           /\ cancelKey(e2) = cancelKey(last'.ev)
           /\ monitorKey(e2) = monitorKey(last'.ev) ]_vars

\* C20: for every event delivered, both handlers compute the same chord:
\* its base code is the identifier table's code exactly when the platform
\* is webkit, the event has an identifier and the identifier is in the
\* table, and the event's keyCode otherwise; the three flags are the
\* event's. Key-down suppresses and key-up calls by that chord.
C20_ChordComputation ==
  [][ EventStep
      => LET e    == last'.ev
             base == IF lib.webkit /\ e.keyIdentifier # ""
                        /\ e.keyIdentifier \in DOMAIN safariTranslator
                     THEN safariTranslator[e.keyIdentifier]
                     ELSE e.keyCode
             c    == <<base, e.ctrlKey, e.shiftKey, e.altKey>>
         IN /\ cancelKey(e) = c
            /\ monitorKey(e) = c
            /\ last'.op = "keydown"
                 => (Stopped(last'.trace) <=> Bound(last'.id, c))
            /\ last'.op = "keyup"
                 => (CallsIn(last'.trace) # {} <=> Bound(last'.id, c)) ]_vars

C20_Witness ==
  /\ last.op = "keydown" /\ lib.webkit
  /\ last.ev.keyIdentifier = "U+00C6" /\ last.ev.keyCode = KEY.F
  /\ Stopped(last.trace)
  /\ ~Bound("myDiv", <<KEY.F, last.ev.ctrlKey, last.ev.shiftKey,
                       last.ev.altKey>>)

\* what a key-down did to its event and to the accesskey divs
Zeroed(trace) == \E i \in 1..Len(trace) : trace[i].do = "zeroKeyCode"
\* this step moved the div of code c, and no other div, to the scroll offset
Repositioned(c) ==
  /\ HasDiv(divs, c)
  /\ divs' = [divs EXCEPT ![FirstDiv(divs, c)].placed = TRUE]
  /\ \E i \in 1..Len(last'.trace) : last'.trace[i] = SetStyle(c)
IsFunctionKey(c) == c >= 112 /\ c <= 123
IsAlnum(c) == (c >= 48 /\ c <= 57) \/ (c >= 65 /\ c <= 90)

\* C18: on key-down the event's key code is set to 0 exactly when the
\* platform is msie, the event's chord is bound and the code is a function
\* key; the div of the code is repositioned exactly when msie, bound, alt
\* pressed and the code alphanumeric; in every other case the key code is
\* as delivered and no div is touched.
C18_KeyDownCorrections ==
  [][ ( EventStep /\ last'.op = "keydown" )
      => LET e     == last'.ev
             bound == Bound(last'.id, Normalize(e))
             zero  == lib.msie /\ bound /\ IsFunctionKey(e.keyCode)
             move  == lib.msie /\ bound /\ e.altKey /\ IsAlnum(e.keyCode)
         IN /\ Zeroed(last'.trace) <=> zero
            /\ last'.keyCode = (IF zero THEN 0 ELSE e.keyCode)
            /\ IF move THEN Repositioned(e.keyCode) ELSE divs' = divs
            /\ ( ~lib.msie \/ ~bound )
                 => /\ last'.keyCode = e.keyCode
                    /\ divs' = divs
                    /\ last'.trace \in {<< >>, <<StopEvent>>} ]_vars

\* C19: a register call appends the div of code k, under its target,
\* exactly when the call is accepted, the platform is msie and the chord has
\* alt set and an alphanumeric base code k; every other register call leaves
\* the divs as they were.
C19_TrapCreatedIffNeeded ==
  [][ RegisterStep
      => LET c == ChordOf(last'.key)
         IN IF /\ last'.result = "ok" /\ lib.msie
               /\ c[4] /\ IsAlnum(c[1])
            THEN divs' = Append(divs, [id |-> c[1], parent |-> last'.id,
                                       placed |-> FALSE])
            ELSE divs' = divs ]_vars

\* C17: the outcome of every key event is a function of the platform, the
\* event's data and the registry as it is when the event arrives: a key-up
\* whose chord is bound calls the method and stops the event whatever was
\* delivered before it, a key-down whose chord is bound stops the event and
\* applies the corrections of the platform, and an event whose chord is not
\* bound does nothing.
C17_NoPressTracking ==
  [][ EventStep
      => LET e     == last'.ev
             ks    == keys[last'.id]
             c     == Normalize(e)
             bound == c \in DOMAIN ks
             zero  == lib.msie /\ IsFunctionKey(e.keyCode)
             move  == /\ lib.msie /\ lib.name = "prototype"
                      /\ e.altKey /\ IsAlnum(e.keyCode)
         IN /\ last'.op = "keyup"
                 => last'.trace =
                      IF bound
                      THEN <<Call(ks[c].fn,
                                  IF ks[c].type = "function" THEN e.target
                                  ELSE ks[c].context, e),
                             StopEvent>>
                      ELSE << >>
            /\ last'.op = "keydown"
                 => /\ last'.trace =
                         IF bound
                         THEN <<StopEvent>>
                              \o (IF zero THEN <<ZeroKeyCode>> ELSE << >>)
                              \o (IF move THEN <<SetStyle(e.keyCode)>>
                                  ELSE << >>)
                         ELSE << >>
                    /\ last'.keyCode =
                         (IF bound /\ zero THEN 0 ELSE e.keyCode) ]_vars

\* a key-up of Alt+C called the method although no key-down of Alt+C was
\* delivered since the chord was registered: its div was never repositioned
C17_Witness ==
  /\ last.op = "keyup" /\ CallsIn(last.trace) # {}
  /\ last.ev.keyCode = KEY.C /\ last.ev.altKey
  /\ lib.msie /\ lib.name = "prototype"
  /\ \E i \in 1..Len(divs) : divs[i].id = KEY.C
  /\ \A i \in 1..Len(divs) : ~divs[i].placed

\* the chord of a modifier pressed alone, for the three modifier key specs
SolitaryChord(key) ==
  CASE key = 256  -> <<17, FALSE, FALSE, FALSE>>
    [] key = 512  -> <<16, FALSE, FALSE, FALSE>>
    [] key = 1024 -> <<18, FALSE, FALSE, FALSE>>

\* C21: an accepted register call for exactly 256, 512 or 1024 binds exactly
\* the chord (17,F,F,F), (16,F,F,F) or (18,F,F,F); an accepted register
\* call for base code 0 with two or more modifier bits binds exactly the
\* chord (0, ctrl, shift, alt); and an event is acted on exactly when its
\* key code and its three flags are those of a bound chord, so a solitary
\* binding is matched only by the modifier's key code with no flag set.
C21_SolitaryModifiers ==
  [][ /\ ( RegisterStep /\ last'.result = "ok" /\ last'.key % 256 = 0
           /\ last'.key \in 1..2047 )
         => IF last'.key \in {256, 512, 1024}
            THEN BindsExactly({SolitaryChord(last'.key)})
            ELSE BindsExactly({Encoded(last'.key)})
      /\ EventStep
         => LET e == last'.ev
            IN ( last'.trace # << >> )
                 <=> ( <<e.keyCode, e.ctrlKey, e.shiftKey, e.altKey>>
                         \in DOMAIN keys[last'.id] ) ]_vars

\* Ctrl alone is bound and the key-up of the Ctrl key, with no flag set,
\* called the method
C21_Witness ==
  /\ last.op = "keyup" /\ CallsIn(last.trace) # {}
  /\ last.ev.keyCode = 17
  /\ ~last.ev.ctrlKey /\ ~last.ev.shiftKey /\ ~last.ev.altKey
  /\ DOMAIN keys["myDiv"] = {<<17, FALSE, FALSE, FALSE>>}
  /\ \E i \in 1..Len(applied) : applied[i].key = 256

\* C22: whenever a key-down addresses the div of code k (the platform is
\* msie, the event's chord is bound, alt is pressed and k is alphanumeric),
\* a div of code k exists, and it was created by an earlier accepted register
\* call for Alt with base code k.
C22_TrapExistsWhenAddressed ==
  [][ ( /\ EventStep /\ last'.op = "keydown" /\ lib.msie
        /\ Bound(last'.id, Normalize(last'.ev))
        /\ last'.ev.altKey /\ IsAlnum(last'.ev.keyCode) )
      => /\ HasDiv(divs, last'.ev.keyCode)
         /\ \E i \in 1..Len(applied) :
              /\ applied[i].result = "ok"
              /\ ChordOf(applied[i].key)[1] = last'.ev.keyCode
              /\ ChordOf(applied[i].key)[4] ]_vars

\* C23: a register call on a target, accepted or refused, and a key event
\* delivered to a target's handlers leave the registry of every other
\* target as it was, and an event delivered to a target's handlers is acted
\* on exactly when its chord is bound in that target's own registry,
\* whatever is bound on the other targets.
C23_RegistriesAreSeparate ==
  [][ /\ ( RegisterStep \/ EventStep )
         => \A b \in Ids \ {last'.id} : keys'[b] = keys[b]
      /\ EventStep
         => ( last'.trace # << >>
              <=> Bound(last'.id, Normalize(last'.ev)) ) ]_vars

\* F is bound on myDiv and not on the document, whose handlers exist and got
\* the key-up of F bubbling from myDiv: nothing was called
C23_Witness ==
  /\ last.op = "keyup" /\ last.id = "document"
  /\ last.ev.keyCode = KEY.F /\ last.ev.target = "myDiv"
  /\ last.trace = << >>
  /\ Bound("myDiv", Normalize(last.ev))
  /\ ~Bound("document", Normalize(last.ev))
  /\ keys["document"] # << >>

====
